---- MODULE Spec2Model ----
(***************************************************************************)
(* A model of lingvo/core/step.py: the Step contract, StackStep (a linear  *)
(* stack of steps with residual connections) and GraphStep (steps wired    *)
(* into a data-flow graph by signatures) and StatelessLayerStep (a layer   *)
(* without state wrapped into a step).                                     *)
(*                                                                         *)
(* Python lists are 0-based; the sequences below are 1-based, so the       *)
(* element the code calls x[i] is x[i + 1] here.  Where the code's index   *)
(* matters (residual lookback, synthesized names) the code's 0-based index *)
(* is kept as a separate number.                                           *)
(***************************************************************************)
EXTENDS Integers, Sequences, FiniteSets, TLC

\* Bounds of the model.
MaxSub == 2        \* at most this many sub-steps in GraphStep.params.sub / StackStep.params.sub
MaxCalls == 2      \* at most this many FProp calls (timesteps) per sequence

(***************************************************************************)
(* The state: one GraphStep, one StackStep and one StatelessLayerStep,     *)
(* each with the calls its caller has made so far.  g_phase / s_phase /    *)
(* l_phase is "idle" for the components a behaviour does not exercise.     *)
(***************************************************************************)
\* GraphStep
VARIABLES
  p_sub,               \* params.sub: the list of SubStep(signature, external_signature, params)
  p_output_signature,  \* params.output_signature (parsed)
  g_phase,             \* "idle" | "params" | "built" | "error" | "prepared" |
                       \* "prepare_error" | "ready"
  _seq,                \* self._seq: <<[name, signature, external_signature, step]>>
  g_external_inputs,   \* the caller's external_inputs given to PrepareExternalInputs
  prepared_inputs,     \* the PrepareExternalInputs call: [status, map, calls, graph_tensors];
                       \* map is what it returned: sub-step name -> value
  g_zero,              \* the ZeroState call: [state0, calls]
  g_state,             \* the state the caller threads from one FProp to the next
  g_args,              \* the arguments of the last FProp call: [step_inputs, padding]
  g_fprop,             \* the last FProp call: [status, output, state0, state1, calls, graph_tensors]
  g_ncalls             \* FProp calls made so far

gvars == <<p_sub, p_output_signature, g_phase, _seq, g_external_inputs,
           prepared_inputs, g_zero, g_state, g_args, g_fprop, g_ncalls>>

\* StackStep
VARIABLES
  s_sub,            \* len(self.sub): the number of sub-steps of the stack
  residual_start,   \* params.residual_start
  residual_stride,  \* params.residual_stride
  s_phase,          \* "idle" | "built" | "prepared" | "ready"
  s_prepared,       \* what PrepareExternalInputs returned: packed.sub
  s_zero,           \* the ZeroState call: [state0, calls]
  s_state,          \* the state the caller threads from one FProp to the next
  s_fprop,          \* the last FProp call: [status, output, state0, state1, step_inputs, calls]
  s_ncalls          \* FProp calls made so far

svars == <<s_sub, residual_start, residual_stride, s_phase, s_prepared, s_zero,
           s_state, s_fprop, s_ncalls>>

\* StatelessLayerStep
VARIABLES
  l_phase,     \* "idle" | "built"
  l_prepared,  \* the last PrepareExternalInputs call: [status, external_inputs, result]
  l_zero,      \* the last ZeroState call: [status, external_inputs, batch_size, result]
  l_fprop      \* the last FProp call: [status, external_inputs, step_inputs, padding,
               \* state0, layer_call, output, state1]; layer_call is the call of
               \* self.layer.FProp: [inputs, args]

lvars == <<l_phase, l_prepared, l_zero, l_fprop>>

vars == <<gvars, svars, lvars>>

(***************************************************************************)
(* Values.  Every value that is passed around is a tagged record           *)
(* [tag, v]: a tensor carries one number, a NestedMap carries its leaves   *)
(* (in order), None carries nothing.                                       *)
(***************************************************************************)
None == [tag |-> "None", v |-> <<>>]
NestedMap(leaves) == [tag |-> "NestedMap", v |-> leaves]
Tensor(x) == [tag |-> "Tensor", v |-> <<x>>]

RECURSIVE SumSeq(_)
SumSeq(s) == IF s = <<>> THEN 0 ELSE Head(s) + SumSeq(Tail(s))

\* The number a sub-step computes from one of its arguments.
Digest(val) ==
  CASE val.tag = "None" -> 0
    [] val.tag = "NestedMap" -> 1 + SumSeq(val.v)
    [] OTHER -> 2 + SumSeq(val.v)

RECURSIVE DigestAll(_)
DigestAll(vals) == IF vals = <<>> THEN 0 ELSE Digest(Head(vals)) + DigestAll(Tail(vals))

\* An empty name -> value mapping (py_utils.NestedMap() used as a dict, or
\* the name table of a GraphTensors).
EmptyMapping == [n \in {} |-> None]

(***************************************************************************)
(* The sub-steps.  A sub-step is some Step implementation; the model uses  *)
(* one deterministic leaf step per position k (k stands for theta[k] and   *)
(* the step's own parameters).  Padding 1.0 keeps the state unchanged.     *)
(***************************************************************************)
SubPrepareExternalInputs(k, external_inputs) ==
  Tensor(Digest(external_inputs) + k)

SubZeroState(k, external_inputs, batch_size) ==
  Tensor((Digest(external_inputs) + batch_size + k) % 2)

SubFProp(k, external_inputs, step_inputs, padding, state0) ==
  [output |-> Tensor(DigestAll(step_inputs) + Digest(external_inputs)
                       + Digest(state0) + k),
   state1 |-> IF padding = Tensor(1) THEN state0
              ELSE Tensor((state0.v[1] + 1) % 3)]

(***************************************************************************)
(* builder_layers.GraphSignature and builder_layers.GraphTensors.           *)
(* A parsed signature is [inputs, outputs]: inputs is the list of input    *)
(* groups, each group the list of reference paths it names; outputs is the *)
(* list of output names.  A reference path is modelled by the registry     *)
(* name it starts with (field and index selection below that name is not   *)
(* modelled).  An external signature's only input is a bare reference.     *)
(***************************************************************************)
GraphSignature(inputs, outputs) == [inputs |-> inputs, outputs |-> outputs]

\* external_signature = None in a SubStep.
NoSignature == GraphSignature(<<>>, <<"-">>)

\* Variant of GraphTensors: the registry of the previous FProp call is kept.
ReusedGraphTensors == g_fprop.graph_tensors

\* graph_tensors = builder_layers.GraphTensors(): an empty registry.
GraphTensors == EmptyMapping

\* GraphTensors.StoreTensor(name, value): fails if the name is already stored.
StoreTensor(reg, name, value) ==
  IF name \in DOMAIN reg
    THEN [ok |-> FALSE, reg |-> reg]
    ELSE [ok |-> TRUE, reg |-> (name :> value) @@ reg]

\* GraphTensors.GetTensor(path) succeeds only for a stored name.
CanGetTensor(reg, path) == path \in DOMAIN reg
GetTensor(reg, path) == reg[path]

\* template.Transform(graph_tensors.GetTensor) over one list of paths.
CanTransform(reg, paths) == \A j \in 1..Len(paths) : CanGetTensor(reg, paths[j])
Transform(reg, paths) == [j \in 1..Len(paths) |-> GetTensor(reg, paths[j])]

(***************************************************************************)
(* GraphStep.                                                              *)
(***************************************************************************)
\* SubStep = namedtuple('SubStep', ['signature', 'external_signature', 'params']);
\* of params only the name matters here ("" when the spec gives none).
SubStep(signature, external_signature, name) ==
  [signature |-> signature, external_signature |-> external_signature, name |-> name]

\* '%02d' % i
Format02d(i) == IF i < 10 THEN "0" \o ToString(i) ELSE ToString(i)

\* Variant of SynthesizedName: the position index is left out.
SynthesizedNameNoIndex(sig, i) == sig.outputs[1]

\* name = '%s_%02d' % (sig.outputs[0], i)
SynthesizedName(sig, i) == sig.outputs[1] \o "_" \o Format02d(i)

\* Variant of SignatureOk: the external signature is not examined.
SignatureOkNoExternal(sub) ==
  /\ Len(sub.signature.inputs) = 1
  /\ sub.signature.outputs # <<>>

\* The assertions __init__ makes about one spec.
SignatureOk(sub) ==
  /\ Len(sub.signature.inputs) = 1
  /\ sub.signature.outputs # <<>>
  /\ sub.external_signature # NoSignature =>
       /\ Len(sub.external_signature.inputs) = 1
       /\ sub.external_signature.outputs = <<>>

\* name = sub_params.name; if not name: name = '%s_%02d' % (sig.outputs[0], i)
SubName(sub, i) ==
  IF sub.name # "" THEN sub.name ELSE SynthesizedName(sub.signature, i)

\* BaseLayer.CreateChild(name, params) registers the child under its name and
\* refuses a name that is already registered.
CreateChildOk(children, name) == name \notin children

\* The loop of __init__ from spec i (0-based) on; seq is self._seq so far.
RECURSIVE InitLoop(_, _, _)
InitLoop(sub, i, seq) ==
  IF i >= Len(sub) THEN [status |-> "ok", seq |-> seq]
  ELSE IF ~SignatureOk(sub[i + 1]) THEN [status |-> "AssertionError", seq |-> seq]
  ELSE LET name == SubName(sub[i + 1], i)
           children == {seq[j].name : j \in 1..Len(seq)}
       IN IF ~CreateChildOk(children, name)
            THEN [status |-> "AssertionError", seq |-> seq]
            ELSE InitLoop(sub, i + 1,
                   Append(seq, [name |-> name,
                                signature |-> sub[i + 1].signature,
                                external_signature |-> sub[i + 1].external_signature,
                                step |-> i]))

\* GraphStep.__init__
GraphStepInit ==
  /\ g_phase = "params"
  /\ LET r == InitLoop(p_sub, 0, <<>>)
     IN /\ _seq' = r.seq
        /\ g_phase' = IF r.status = "ok" THEN "built" ELSE "error"
  /\ UNCHANGED <<p_sub, p_output_signature, g_external_inputs, prepared_inputs,
                 g_zero, g_state, g_args, g_fprop, g_ncalls, svars, lvars>>

\* The leaves of a name-keyed NestedMap, in the order of self._seq, as one value
\* (what is stored when the whole mapping is put into the registry).
RECURSIVE Leaves(_, _, _)
Leaves(seq, mapping, k) ==
  IF k > Len(seq) THEN <<>>
  ELSE (IF seq[k].name \in DOMAIN mapping THEN mapping[seq[k].name].v ELSE <<>>)
         \o Leaves(seq, mapping, k + 1)

AsValue(seq, mapping) == NestedMap(Leaves(seq, mapping, 1))

\* Variant of NoExternalInputs: no entry value at all.
NoExternalInputsNone == None

\* prepared_inputs[seq.name] = py_utils.NestedMap() for a sub-step without an
\* external signature.
NoExternalInputs == NestedMap(<<>>)

\* The loop of PrepareExternalInputs from sub-step k (1-based) on.
RECURSIVE PrepareLoop(_, _, _, _, _)
PrepareLoop(seq, k, graph_tensors, prepared, calls) ==
  IF k > Len(seq) THEN [status |-> "ok", prepared |-> prepared, calls |-> calls,
                        graph_tensors |-> graph_tensors]
  ELSE IF seq[k].external_signature # NoSignature
    THEN IF ~CanTransform(graph_tensors, seq[k].external_signature.inputs)
           THEN [status |-> "LookupError", prepared |-> EmptyMapping, calls |-> calls,
                 graph_tensors |-> graph_tensors]
           ELSE LET packed == Transform(graph_tensors, seq[k].external_signature.inputs)
                    seq_external_inputs == packed[1]
                    res == SubPrepareExternalInputs(seq[k].step, seq_external_inputs)
                IN PrepareLoop(seq, k + 1, graph_tensors,
                     (seq[k].name :> res) @@ prepared,
                     Append(calls, [name |-> seq[k].name, step |-> seq[k].step,
                                    external_inputs |-> seq_external_inputs,
                                    result |-> res]))
    ELSE PrepareLoop(seq, k + 1, graph_tensors,
                     (seq[k].name :> NoExternalInputs) @@ prepared, calls)

\* GraphStep.PrepareExternalInputs(theta, external_inputs)
GraphPrepareExternalInputs(external_inputs) ==
  /\ g_phase = "built"
  /\ LET stored == StoreTensor(GraphTensors, "external_inputs", external_inputs)
         r == IF stored.ok
                THEN PrepareLoop(_seq, 1, stored.reg, EmptyMapping, <<>>)
                ELSE [status |-> "StoreError", prepared |-> EmptyMapping, calls |-> <<>>,
                      graph_tensors |-> stored.reg]
     IN /\ g_external_inputs' = external_inputs
        /\ prepared_inputs' = [status |-> r.status, map |-> r.prepared, calls |-> r.calls,
                               graph_tensors |-> r.graph_tensors]
        /\ g_phase' = IF r.status = "ok" THEN "prepared" ELSE "prepare_error"
  /\ UNCHANGED <<p_sub, p_output_signature, _seq, g_zero, g_state, g_args, g_fprop,
                 g_ncalls, svars, lvars>>

\* The loop of ZeroState from sub-step k (1-based) on.
RECURSIVE ZeroStateLoop(_, _, _, _, _, _)
ZeroStateLoop(seq, k, prepared, batch_size, state0, calls) ==
  IF k > Len(seq) THEN [state0 |-> state0, calls |-> calls]
  ELSE LET res == SubZeroState(seq[k].step, prepared[seq[k].name], batch_size)
       IN ZeroStateLoop(seq, k + 1, prepared, batch_size,
            (seq[k].name :> res) @@ state0,
            Append(calls, [name |-> seq[k].name, step |-> seq[k].step,
                           external_inputs |-> prepared[seq[k].name],
                           result |-> res]))

\* GraphStep.ZeroState(theta, prepared_inputs, batch_size)
GraphZeroState(batch_size) ==
  /\ g_phase = "prepared"
  /\ LET r == ZeroStateLoop(_seq, 1, prepared_inputs.map, batch_size, EmptyMapping, <<>>)
     IN /\ g_zero' = r
        /\ g_state' = r.state0
  /\ g_phase' = "ready"
  /\ UNCHANGED <<p_sub, p_output_signature, _seq, g_external_inputs, prepared_inputs,
                 g_args, g_fprop, g_ncalls, svars, lvars>>

\* What FProp leaves behind when it raises: no (output, state1).
Raised(status, calls, graph_tensors, state0) ==
  [status |-> status, output |-> <<>>, state0 |-> state0, state1 |-> EmptyMapping,
   calls |-> calls, graph_tensors |-> graph_tensors]

\* Variant of StoredName: the output is stored under the last declared name.
StoredLastName(sig) == sig.outputs[Len(sig.outputs)]

\* graph_tensors.StoreTensor(seq.signature.outputs[0], out): the name under which
\* FProp stores a sub-step's output.
StoredName(sig) == sig.outputs[1]

\* Variant of StateKey: the state is keyed by the sub-step's output name.
StateKeyByOutput(seqk) == seqk.signature.outputs[1]

\* state1[seq.name] = seq_state1: the key of a sub-step's state.
StateKey(seqk) == seqk.name

\* Variant of FPropOutput: the step's own input is returned as the output.
FPropOutputOfInput(graph_tensors, output_signature) ==
  Transform(graph_tensors, <<"step_inputs">>)

\* template.Transform(graph_tensors.GetTensor).inputs[0] for the output signature.
FPropOutput(graph_tensors, output_signature) ==
  Transform(graph_tensors, output_signature.inputs[1])

\* The loop of FProp from sub-step k (1-based) on, then the output signature.
RECURSIVE FPropLoop(_, _, _, _, _, _, _, _, _)

\* Variant of OnLookupError: the unresolved sub-step is skipped and the loop goes on.
SkipOnLookupError(seq, output_signature, k, graph_tensors, external_inputs, padding, state0, state1, calls) ==
  FPropLoop(seq, output_signature, k + 1, graph_tensors, external_inputs, padding,
            state0, state1, calls)

\* GetTensor raises inside the loop: the exception leaves FProp.
OnLookupError(seq, output_signature, k, graph_tensors, external_inputs, padding, state0, state1, calls) ==
  Raised("LookupError", calls, graph_tensors, state0)

\* external = None; if seq.external_signature: external = external_inputs[seq.name]
FPropExternal(seqk, external_inputs) ==
  IF seqk.external_signature # NoSignature THEN external_inputs[seqk.name] ELSE None

FPropLoop(seq, output_signature, k, graph_tensors, external_inputs, padding, state0, state1, calls) ==
  IF k > Len(seq)
    THEN IF output_signature.inputs = <<>>
              \/ \E g \in 1..Len(output_signature.inputs) :
                    ~CanTransform(graph_tensors, output_signature.inputs[g])
           THEN Raised("LookupError", calls, graph_tensors, state0)
           ELSE [status |-> "ok",
                 output |-> FPropOutput(graph_tensors, output_signature),
                 state0 |-> state0, state1 |-> state1,
                 calls |-> calls, graph_tensors |-> graph_tensors]
  ELSE LET external == FPropExternal(seq[k], external_inputs)
       IN IF \E g \in 1..Len(seq[k].signature.inputs) :
                ~CanTransform(graph_tensors, seq[k].signature.inputs[g])
            THEN OnLookupError(seq, output_signature, k, graph_tensors, external_inputs,
                               padding, state0, state1, calls)
            ELSE LET input_args == Transform(graph_tensors, seq[k].signature.inputs[1])
                     res == SubFProp(seq[k].step, external, input_args, padding,
                                     state0[seq[k].name])
                     call == [name |-> seq[k].name, step |-> seq[k].step,
                              registry |-> DOMAIN graph_tensors,
                              external |-> external, input_args |-> input_args,
                              padding |-> padding, state0 |-> state0[seq[k].name],
                              out |-> res.output, state1 |-> res.state1]
                     stored == StoreTensor(graph_tensors,
                                           StoredName(seq[k].signature), res.output)
                 IN IF ~stored.ok
                      THEN Raised("StoreError", Append(calls, call), graph_tensors, state0)
                      ELSE FPropLoop(seq, output_signature, k + 1, stored.reg,
                                     external_inputs, padding, state0,
                                     (StateKey(seq[k]) :> res.state1) @@ state1,
                                     Append(calls, call))

\* GraphStep.FProp(theta, external_inputs, step_inputs, padding, state0), called
\* with the prepared inputs and with the state of the previous call.
GraphFProp(step_inputs, padding) ==
  /\ g_phase = "ready"
  /\ g_ncalls < MaxCalls
  /\ LET s1 == StoreTensor(GraphTensors, "external_inputs",
                           AsValue(_seq, prepared_inputs.map))
         s2 == StoreTensor(s1.reg, "step_inputs", step_inputs)
         r == IF s1.ok /\ s2.ok
                THEN FPropLoop(_seq, p_output_signature, 1, s2.reg,
                               prepared_inputs.map, padding, g_state, EmptyMapping, <<>>)
                ELSE Raised("StoreError", <<>>, s2.reg, g_state)
     IN /\ g_fprop' = r
        /\ g_args' = [step_inputs |-> step_inputs, padding |-> padding]
        /\ g_state' = IF r.status = "ok" THEN r.state1 ELSE g_state
  /\ g_ncalls' = g_ncalls + 1
  /\ UNCHANGED <<p_sub, p_output_signature, g_phase, _seq, g_external_inputs,
                 prepared_inputs, g_zero, svars, lvars>>

(***************************************************************************)
(* StackStep.                                                              *)
(***************************************************************************)
\* tf.concat(inputs, axis=1): the tensors' features side by side.
RECURSIVE ConcatFrom(_, _)
ConcatFrom(acc, inputs) ==
  IF inputs = <<>> THEN acc
  ELSE ConcatFrom(acc * 10 + Head(inputs).v[1], Tail(inputs))

Concat(inputs) == Tensor(ConcatFrom(0, inputs))

\* output += residual
Add(a, b) == Tensor(a.v[1] + b.v[1])

\* packed.sub / state.sub as one value: NestedMap(sub=[...]).
Packed(sub) == NestedMap([j \in 1..Len(sub) |-> sub[j].v[1]])

\* StackStep.PrepareExternalInputs(theta, external_inputs)
StackPrepareExternalInputs(external_inputs) ==
  /\ s_phase = "built"
  /\ s_prepared' = [i \in 1..s_sub |-> SubPrepareExternalInputs(i - 1, external_inputs)]
  /\ s_phase' = "prepared"
  /\ UNCHANGED <<s_sub, residual_start, residual_stride, s_zero, s_state, s_fprop,
                 s_ncalls, gvars, lvars>>

\* The external_inputs argument StackStep.ZeroState gives to sub-step i (0-based).
ZeroStateExternal(external_inputs, i) == Packed(external_inputs)

\* StackStep.ZeroState(theta, external_inputs, batch_size)
StackZeroState(batch_size) ==
  /\ s_phase = "prepared"
  /\ LET calls == [i \in 1..s_sub |->
                     [step |-> i - 1,
                      external_inputs |-> ZeroStateExternal(s_prepared, i - 1),
                      result |-> SubZeroState(i - 1, ZeroStateExternal(s_prepared, i - 1),
                                              batch_size)]]
         state == [i \in 1..s_sub |-> calls[i].result]
     IN /\ s_zero' = [state0 |-> state, calls |-> calls]
        /\ s_state' = state
  /\ s_phase' = "ready"
  /\ UNCHANGED <<s_sub, residual_start, residual_stride, s_prepared, s_fprop,
                 s_ncalls, gvars, lvars>>

\* What StackStep.FProp leaves behind when it raises: no (output, state1).
StackRaised(status, calls, state0) ==
  [status |-> status, output |-> None, state0 |-> state0, state1 |-> <<>>,
   calls |-> calls]

\* Variant of ResidualActive: a negative residual_start does not disable it.
ResidualActiveFromStart(start, i) == i >= start

\* if i >= self.params.residual_start >= 0
ResidualActive(start, i) == i >= start /\ start >= 0

\* Variant of ResidualIndex: the step input at residual_inputs[0] is not counted.
ResidualIndexOffByOne(stride, i) == i - stride

\* i + 1 - self.params.residual_stride
ResidualIndex(stride, i) == i + 1 - stride

\* assert i + 1 - self.params.residual_stride < len(residual_inputs)
ResidualAssert(stride, i, residual_inputs) ==
  ResidualIndex(stride, i) < Len(residual_inputs)

\* residual_inputs[idx] for a Python list: a negative idx counts from the end and
\* an idx below -len raises IndexError.
ListIndexOk(list, idx) == idx < Len(list) /\ idx >= 0 - Len(list)
ListIndex(list, idx) == IF idx >= 0 THEN list[idx + 1] ELSE list[Len(list) + idx + 1]

\* Variant of Additional: the context is appended whether present or not.
AdditionalAlways(step_inputs) == <<step_inputs.context>>

\* additional = []; if 'context' in step_inputs: additional.append(step_inputs.context)
Additional(step_inputs) ==
  IF step_inputs.context # None THEN <<step_inputs.context>> ELSE <<>>

\* sub_inputs = py_utils.NestedMap(inputs=inputs + additional)
SubInputs(inputs, additional) == inputs \o additional

\* The loop of StackStep.FProp from sub-step i (0-based) on.
RECURSIVE StackLoop(_, _, _, _, _, _, _, _, _, _, _, _)
StackLoop(n, start, stride, i, inputs, additional, residual_inputs, external_inputs, padding, state0, state1, calls) ==
  IF i >= n
    THEN [status |-> "ok", output |-> inputs[1], state0 |-> state0,
          state1 |-> state1, calls |-> calls]
    ELSE LET sub_inputs == SubInputs(inputs, additional)
             res == SubFProp(i, external_inputs[i + 1], sub_inputs, padding, state0[i + 1])
             call(output) == [step |-> i, external |-> external_inputs[i + 1],
                              inputs |-> sub_inputs, padding |-> padding,
                              state0 |-> state0[i + 1], raw |-> res.output,
                              output |-> output, state1 |-> res.state1]
         IN IF ResidualActive(start, i)
              THEN IF ~ResidualAssert(stride, i, residual_inputs)
                     THEN StackRaised("AssertionError", Append(calls, call(res.output)), state0)
                   ELSE IF ~ListIndexOk(residual_inputs, ResidualIndex(stride, i))
                     THEN StackRaised("IndexError", Append(calls, call(res.output)), state0)
                   ELSE LET output == Add(res.output,
                                          ListIndex(residual_inputs, ResidualIndex(stride, i)))
                        IN StackLoop(n, start, stride, i + 1, <<output>>, additional,
                                     Append(residual_inputs, output), external_inputs,
                                     padding, state0, Append(state1, res.state1),
                                     Append(calls, call(output)))
              ELSE StackLoop(n, start, stride, i + 1, <<res.output>>, additional,
                             Append(residual_inputs, res.output), external_inputs,
                             padding, state0, Append(state1, res.state1),
                             Append(calls, call(res.output)))

\* StackStep.FProp(theta, external_inputs, step_inputs, padding, state0), called
\* with the prepared inputs and with the state of the previous call.
\* step_inputs is [inputs, context]; context is None when the field is absent.
StackFProp(step_inputs, padding) ==
  /\ s_phase = "ready"
  /\ s_ncalls < MaxCalls
  /\ LET additional == Additional(step_inputs)
         r == StackLoop(s_sub, residual_start, residual_stride, 0, step_inputs.inputs,
                        additional, <<Concat(step_inputs.inputs)>>, s_prepared, padding,
                        s_state, <<>>, <<>>)
     IN /\ s_fprop' = [status |-> r.status, output |-> r.output, state0 |-> r.state0,
                       state1 |-> r.state1, step_inputs |-> step_inputs,
                       calls |-> r.calls]
        /\ s_state' = IF r.status = "ok" THEN r.state1 ELSE s_state
  /\ s_ncalls' = s_ncalls + 1
  /\ UNCHANGED <<s_sub, residual_start, residual_stride, s_phase, s_prepared, s_zero,
                 gvars, lvars>>

(***************************************************************************)
(* StatelessLayerStep.                                                     *)
(***************************************************************************)
\* self.layer.FProp(theta.layer, inputs, **args): the forward transform of the
\* wrapped layer, a function of its inputs and of the keyword arguments given.
LayerFProp(inputs, args) ==
  Tensor(Digest(inputs) * 10
           + (IF "padding" \in DOMAIN args THEN 1 + Digest(args["padding"]) ELSE 0))

\* StatelessLayerStep.PrepareExternalInputs(theta, external_inputs)
StatelessPrepareExternalInputs(external_inputs) ==
  /\ l_phase = "built"
  /\ l_prepared' = [status |-> "ok", external_inputs |-> external_inputs,
                    result |-> NestedMap(<<>>)]
  /\ UNCHANGED <<l_phase, l_zero, l_fprop, gvars, svars>>

\* StatelessLayerStep.ZeroState(theta, external_inputs, batch_size)
StatelessZeroState(external_inputs, batch_size) ==
  /\ l_phase = "built"
  /\ l_zero' = [status |-> "ok", external_inputs |-> external_inputs,
                batch_size |-> batch_size, result |-> NestedMap(<<>>)]
  /\ UNCHANGED <<l_phase, l_prepared, l_fprop, gvars, svars>>

\* Variant of LayerArgs: padding is forwarded whether given or not.
LayerArgsAlways(padding) == "padding" :> padding

\* args = {}; if padding is not None: args['padding'] = padding
LayerArgs(padding) == IF padding # None THEN "padding" :> padding ELSE EmptyMapping

\* StatelessLayerStep.FProp(theta, external_inputs, step_inputs, padding, state0)
StatelessFProp(external_inputs, step_inputs, padding, state0) ==
  /\ l_phase = "built"
  /\ LET args == LayerArgs(padding)
         output == LayerFProp(step_inputs.inputs, args)
     IN l_fprop' = [status |-> "ok", external_inputs |-> external_inputs,
                    step_inputs |-> step_inputs, padding |-> padding,
                    state0 |-> state0,
                    layer_call |-> [inputs |-> step_inputs.inputs, args |-> args],
                    output |-> output, state1 |-> NestedMap(<<>>)]
  /\ UNCHANGED <<l_phase, l_prepared, l_zero, gvars, svars>>

(***************************************************************************)
(* The configurations and inputs the components are explored with.         *)
(***************************************************************************)
MaxStride == 3     \* residual_stride ranges over -1..MaxStride

\* The external signature 'external_inputs'.
ExternalSignature == GraphSignature(<<"external_inputs">>, <<>>)

\* Sub-step specs without a name: every reference and output combination of
\* interest ("extra" is only ever declared as a second output).
SignatureOutputs == {<<"layer_0">>, <<"layer_1">>, <<"layer_1", "extra">>}

FlowSubs ==
  { SubStep(GraphSignature(<< <<r>> >>, outs), NoSignature, "") :
      r \in {"step_inputs", "layer_0", "layer_1", "extra"}, outs \in SignatureOutputs }
  \cup
  { SubStep(GraphSignature(<< <<"step_inputs">> >>, outs), ExternalSignature, "") :
      outs \in SignatureOutputs }

\* Sub-step specs with and without a name; "layer_0_01" is also the name
\* synthesized for an unnamed spec at position 1 whose first output is layer_0.
NamedSubs ==
  { SubStep(GraphSignature(<< <<"step_inputs">> >>, outs), NoSignature, name) :
      outs \in {<<"layer_0">>, <<"layer_1">>},
      name \in {"", "s", "layer_0_01"} }

\* Sub-step specs whose signatures have every arity of interest: well-formed
\* ones with and without an external signature, and ones with no or two input
\* groups, with no output, and with an external signature that has an output,
\* no input or two inputs.
AritySubs ==
  { SubStep(GraphSignature(<< <<"step_inputs">> >>, <<"layer_0">>), NoSignature, ""),
    SubStep(GraphSignature(<< <<"step_inputs">> >>, <<"layer_1">>), ExternalSignature, ""),
    SubStep(GraphSignature(<<>>, <<"layer_0">>), NoSignature, ""),
    SubStep(GraphSignature(<< <<"step_inputs">>, <<"step_inputs">> >>, <<"layer_0">>),
            NoSignature, ""),
    SubStep(GraphSignature(<< <<"step_inputs">> >>, <<>>), NoSignature, ""),
    SubStep(GraphSignature(<< <<"step_inputs">> >>, <<"layer_0">>),
            GraphSignature(<<"external_inputs">>, <<"prepared">>), ""),
    SubStep(GraphSignature(<< <<"step_inputs">> >>, <<"layer_0">>),
            GraphSignature(<<>>, <<>>), ""),
    SubStep(GraphSignature(<< <<"step_inputs">> >>, <<"layer_0">>),
            GraphSignature(<<"external_inputs", "external_inputs">>, <<>>), "") }

OutputSignatures ==
  { GraphSignature(<< <<r>> >>, <<"output">>) : r \in {"layer_0", "layer_1", "extra"} }

SubLists(choices) == UNION { [1..n -> choices] : n \in 1..MaxSub }

NoCall == Raised("none", <<>>, EmptyMapping, EmptyMapping)

GraphStart(phase) ==
  /\ g_phase = phase
  /\ _seq = <<>>
  /\ g_external_inputs = None
  /\ prepared_inputs = [status |-> "none", map |-> EmptyMapping, calls |-> <<>>,
                        graph_tensors |-> EmptyMapping]
  /\ g_zero = [state0 |-> EmptyMapping, calls |-> <<>>]
  /\ g_state = EmptyMapping
  /\ g_args = [step_inputs |-> None, padding |-> None]
  /\ g_fprop = NoCall
  /\ g_ncalls = 0

StackStart(phase) ==
  /\ s_phase = phase
  /\ s_prepared = <<>>
  /\ s_zero = [state0 |-> <<>>, calls |-> <<>>]
  /\ s_state = <<>>
  /\ s_fprop = [status |-> "none", output |-> None, state0 |-> <<>>, state1 |-> <<>>,
                step_inputs |-> [inputs |-> <<>>, context |-> None], calls |-> <<>>]
  /\ s_ncalls = 0

StatelessStart(phase) ==
  /\ l_phase = phase
  /\ l_prepared = [status |-> "none", external_inputs |-> None, result |-> None]
  /\ l_zero = [status |-> "none", external_inputs |-> None, batch_size |-> 0,
               result |-> None]
  /\ l_fprop = [status |-> "none", external_inputs |-> None,
                step_inputs |-> [inputs |-> None], padding |-> None, state0 |-> None,
                layer_call |-> [inputs |-> None, args |-> EmptyMapping],
                output |-> None, state1 |-> None]

\* A GraphStep about to be constructed from its params; the other components
\* are not used.
GraphInit ==
  /\ p_sub \in SubLists(FlowSubs) \cup SubLists(NamedSubs) \cup SubLists(AritySubs)
  /\ p_output_signature \in OutputSignatures
  /\ GraphStart("params")
  /\ s_sub = 0 /\ residual_start = -1 /\ residual_stride = 1
  /\ StackStart("idle")
  /\ StatelessStart("idle")

\* A constructed StackStep; the other components are not used.
StackInit ==
  /\ s_sub \in 1..MaxSub
  /\ residual_start \in -1..(MaxSub - 1)
  /\ residual_stride \in -1..MaxStride
  /\ StackStart("built")
  /\ p_sub = <<>> /\ p_output_signature = NoSignature
  /\ GraphStart("idle")
  /\ StatelessStart("idle")

\* A constructed StatelessLayerStep; the other components are not used.
StatelessInit ==
  /\ StatelessStart("built")
  /\ p_sub = <<>> /\ p_output_signature = NoSignature
  /\ GraphStart("idle")
  /\ s_sub = 0 /\ residual_start = -1 /\ residual_stride = 1
  /\ StackStart("idle")

Init == GraphInit \/ StackInit \/ StatelessInit

\* The values a caller hands to a StatelessLayerStep.
LayerExternalInputs == {None, NestedMap(<<>>), Tensor(1)}
LayerStepInputs == { [inputs |-> x] : x \in {Tensor(1), Tensor(2)} }
LayerPaddings == {None, Tensor(0), Tensor(1)}
LayerStates == {NestedMap(<<>>), Tensor(1)}

StepInputs ==
  { [inputs |-> ins, context |-> c] :
      ins \in {<<Tensor(1)>>, <<Tensor(1), Tensor(2)>>},
      c \in {None, Tensor(5)} }

Next ==
  \/ GraphStepInit
  \/ \E external_inputs \in {Tensor(1), Tensor(2)} :
       GraphPrepareExternalInputs(external_inputs)
  \/ \E batch_size \in {1} : GraphZeroState(batch_size)
  \/ \E step_inputs \in {Tensor(1)}, padding \in {Tensor(0), Tensor(1)} :
       GraphFProp(step_inputs, padding)
  \/ \E external_inputs \in {Tensor(1)} : StackPrepareExternalInputs(external_inputs)
  \/ \E batch_size \in {1} : StackZeroState(batch_size)
  \/ \E step_inputs \in StepInputs, padding \in {Tensor(0), Tensor(1)} :
       StackFProp(step_inputs, padding)
  \/ \E external_inputs \in LayerExternalInputs :
       StatelessPrepareExternalInputs(external_inputs)
  \/ \E external_inputs \in LayerExternalInputs, batch_size \in {1, 2} :
       StatelessZeroState(external_inputs, batch_size)
  \/ \E external_inputs \in LayerExternalInputs, step_inputs \in LayerStepInputs,
        padding \in LayerPaddings, state0 \in LayerStates :
       StatelessFProp(external_inputs, step_inputs, padding, state0)

Spec == Init /\ [][Next]_vars

(***************************************************************************)
(* Properties of GraphStep.FProp.                                          *)
(***************************************************************************)
\* The names FProp stores before its loop.
Seeds == {"external_inputs", "step_inputs"}

\* What the registry holds when sub-step k (1-based) resolves its references:
\* the seeds and the first output name of every sub-step declared before k.
RegistryBefore(k) == Seeds \cup { _seq[i].signature.outputs[1] : i \in 1..(k - 1) }

\* The reference paths of sub-step k's signature.
Refs(k) ==
  { _seq[k].signature.inputs[1][j] : j \in 1..Len(_seq[k].signature.inputs[1]) }

UnknownRef(k) == \E ref \in Refs(k) : ref \notin RegistryBefore(k)
Collides(k) == _seq[k].signature.outputs[1] \in RegistryBefore(k)
CleanBefore(k) == \A j \in 1..(k - 1) : ~UnknownRef(j) /\ ~Collides(j)

\* C1: in FProp every sub-step k resolves its references against a registry
\* holding only external_inputs, step_inputs and the outputs stored by the
\* sub-steps declared before k; a reference to any other name (unknown, k's own
\* output, a later sub-step's output) raises a lookup error, after which no
\* further sub-step is invoked and no (output, state1) is returned.
C1_BackwardResolution ==
  g_fprop.status # "none" =>
    /\ \A k \in 1..Len(g_fprop.calls) :
         /\ g_fprop.calls[k].step = k - 1
         /\ g_fprop.calls[k].registry = RegistryBefore(k)
         /\ Refs(k) \subseteq RegistryBefore(k)
    /\ \A k \in 1..Len(_seq) :
         UnknownRef(k) =>
           /\ g_fprop.status # "ok"
           /\ Len(g_fprop.calls) < k
           /\ g_fprop.output = <<>>
           /\ g_fprop.state1 = EmptyMapping
           /\ g_state = g_fprop.state0
           /\ CleanBefore(k) =>
                g_fprop.status = "LookupError" /\ Len(g_fprop.calls) = k - 1

\* A second sub-step that references its own output: the call raised a lookup
\* error after the first sub-step alone had run.
C1_Witness ==
  /\ Len(_seq) = 2
  /\ _seq[2].signature.outputs[1] \in Refs(2)
  /\ ~Collides(2)
  /\ g_fprop.status = "LookupError"
  /\ Len(g_fprop.calls) = 1

\* The sub-step whose first output name is `name`, among the first n sub-steps.
Producers(name, n) == { i \in 1..n : _seq[i].signature.outputs[1] = name }

\* The two-step scenario: A reads step_inputs and produces layer_0, B reads
\* layer_0 and produces layer_1, the output signature references layer_1.
TwoStepScenario ==
  /\ Len(_seq) = 2
  /\ _seq[1].signature = GraphSignature(<< <<"step_inputs">> >>, <<"layer_0">>)
  /\ _seq[2].signature = GraphSignature(<< <<"layer_0">> >>, <<"layer_1">>)
  /\ p_output_signature.inputs = << <<"layer_1">> >>

\* C3: a successful FProp invokes every sub-step exactly once, in declaration
\* order; a reference to an earlier sub-step's output name receives the value
\* that sub-step's FProp returned in this call; the overall output is the
\* output signature's reference resolved against the final registry.  In the
\* two-step scenario A runs before B, B consumes A's output and the output is
\* layer_1's value.
C3_DeclarationOrderDataFlow ==
  /\ g_fprop.status = "ok" =>
       /\ Len(g_fprop.calls) = Len(_seq)
       /\ \A k \in 1..Len(_seq) :
            LET c == g_fprop.calls[k]
                paths == _seq[k].signature.inputs[1]
            IN /\ c.name = _seq[k].name
               /\ c.step = k - 1
               /\ Len(c.input_args) = Len(paths)
               /\ \A j \in 1..Len(paths) :
                    /\ paths[j] = "step_inputs" => c.input_args[j] = g_args.step_inputs
                    /\ \A i \in Producers(paths[j], k - 1) :
                         c.input_args[j] = g_fprop.calls[i].out
               /\ c.out = SubFProp(k - 1, c.external, c.input_args, g_args.padding,
                                   g_fprop.state0[_seq[k].name]).output
       /\ \E i \in Producers(p_output_signature.inputs[1][1], Len(_seq)) :
            g_fprop.output = <<g_fprop.calls[i].out>>
  /\ (g_fprop.status # "none" /\ TwoStepScenario) =>
       /\ g_fprop.status = "ok"
       /\ g_fprop.calls[1].input_args = <<g_args.step_inputs>>
       /\ g_fprop.calls[2].input_args = <<g_fprop.calls[1].out>>
       /\ g_fprop.output = <<g_fprop.calls[2].out>>

\* The two-step scenario has run.
C3_Witness ==
  /\ TwoStepScenario
  /\ g_fprop.status = "ok"
  /\ Len(g_fprop.calls) = 2

\* Two specs of params.sub declare the same output name.
DuplicateOutputs ==
  \E i, j \in 1..Len(p_sub) :
    /\ i < j
    /\ \E a \in 1..Len(p_sub[i].signature.outputs), b \in 1..Len(p_sub[j].signature.outputs) :
         p_sub[i].signature.outputs[a] = p_sub[j].signature.outputs[b]

Constructed == g_phase \in {"built", "prepared", "prepare_error", "ready"}
ConstructorReturned == Constructed \/ g_phase = "error"

DistinctSubNames ==
  \A i, j \in 1..Len(p_sub) :
    (i # j /\ SignatureOk(p_sub[i]) /\ SignatureOk(p_sub[j])) =>
      SubName(p_sub[i], i - 1) # SubName(p_sub[j], j - 1)

C7_AllOutputsStored ==
  g_fprop.status # "none" =>
    /\ \A k \in 1..Len(g_fprop.calls) : \A i \in 1..(k - 1) :
         \A a \in 1..Len(_seq[i].signature.outputs) :
           _seq[i].signature.outputs[a] \in g_fprop.calls[k].registry
    /\ g_fprop.status = "ok" =>
         \A i \in 1..Len(_seq) : \A a \in 1..Len(_seq[i].signature.outputs) :
           _seq[i].signature.outputs[a] \in DOMAIN g_fprop.graph_tensors

\* C9: every PrepareExternalInputs and every FProp call starts from a fresh
\* registry holding only its own top-level inputs: what a call finds stored
\* comes from that call alone, so a repeated timestep never fails on a name a
\* previous timestep stored and never reads a previous timestep's output.
C9_FreshRegistry ==
  /\ prepared_inputs.status # "none" =>
       /\ prepared_inputs.status = "ok"
       /\ DOMAIN prepared_inputs.graph_tensors = {"external_inputs"}
       /\ prepared_inputs.graph_tensors["external_inputs"] = g_external_inputs
  /\ g_fprop.status # "none" =>
       /\ Len(g_fprop.calls) >= 1 => g_fprop.calls[1].registry = Seeds
       /\ DOMAIN g_fprop.graph_tensors \subseteq RegistryBefore(Len(g_fprop.calls) + 1)
       /\ g_fprop.graph_tensors["step_inputs"] = g_args.step_inputs
       /\ g_fprop.graph_tensors["external_inputs"] = AsValue(_seq, prepared_inputs.map)
       /\ \A i \in 1..Len(g_fprop.calls) :
            (~Collides(i) /\ (i < Len(g_fprop.calls) \/ g_fprop.status = "ok")) =>
              g_fprop.graph_tensors[_seq[i].signature.outputs[1]] = g_fprop.calls[i].out
       /\ g_fprop.status = "StoreError" =>
            Len(g_fprop.calls) >= 1 /\ Collides(Len(g_fprop.calls))

\* A second timestep that succeeded on a graph whose sub-steps store names.
C9_Witness ==
  /\ g_ncalls = 2
  /\ g_fprop.status = "ok"
  /\ Len(g_fprop.calls) = 2
  /\ g_fprop.calls[1].registry = Seeds

\* C10 as stated: the name synthesized for an unnamed spec differs from the
\* name of every other sub-step of the instance.
C10_SynthesizedNameUnique ==
  ConstructorReturned =>
    \A i, j \in 1..Len(p_sub) :
      (i # j /\ p_sub[i].name = "" /\ SignatureOk(p_sub[i]) /\ SignatureOk(p_sub[j])) =>
        SynthesizedName(p_sub[i].signature, i - 1) # SubName(p_sub[j], j - 1)

\* C10, amended: the name synthesized for an unnamed spec differs from the name
\* synthesized for every other unnamed spec (their positions differ); it can
\* equal an explicitly given name, and construction then fails when the child
\* is registered; after a successful construction the names are pairwise distinct.
C10_SynthesizedNamesDistinct ==
  ConstructorReturned =>
    /\ \A i, j \in 1..Len(p_sub) :
         (i # j /\ p_sub[i].name = "" /\ p_sub[j].name = ""
            /\ SignatureOk(p_sub[i]) /\ SignatureOk(p_sub[j])) =>
           SynthesizedName(p_sub[i].signature, i - 1)
             # SynthesizedName(p_sub[j].signature, j - 1)
    /\ ~DistinctSubNames => g_phase = "error"
    /\ Constructed =>
         /\ Len(_seq) = Len(p_sub)
         /\ \A i, j \in 1..Len(_seq) : i # j => _seq[i].name # _seq[j].name
         /\ \A i \in 1..Len(_seq) :
              p_sub[i].name = "" =>
                _seq[i].name = p_sub[i].signature.outputs[1] \o "_0" \o ToString(i - 1)

\* Two unnamed specs with the same first output name have been constructed.
C10_Witness ==
  /\ Constructed
  /\ Len(p_sub) = 2
  /\ p_sub[1].name = "" /\ p_sub[2].name = ""
  /\ p_sub[1].signature.outputs[1] = p_sub[2].signature.outputs[1]
  /\ _seq[1].name = "layer_0_00" /\ _seq[2].name = "layer_0_01"

\* C6: the state1 a successful FProp returns has the top-level structure of the
\* state0 it consumed, which is the structure ZeroState produced: for GraphStep
\* one entry per sub-step keyed by sub-step name, for StackStep one entry per
\* sub-step in order; entry k is what sub-step k's FProp returned for entry k
\* of state0; the caller's next call consumes that state1.
C6_StateShape ==
  /\ (g_phase = "ready" /\ g_fprop.status # "ok") => g_state = g_zero.state0
  /\ g_phase = "ready" =>
       /\ DOMAIN g_zero.state0 = { _seq[k].name : k \in 1..Len(_seq) }
       /\ Cardinality(DOMAIN g_zero.state0) = Len(_seq)
  /\ g_fprop.status = "ok" =>
       /\ DOMAIN g_fprop.state1 = DOMAIN g_fprop.state0
       /\ DOMAIN g_fprop.state1 = DOMAIN g_zero.state0
       /\ Len(g_fprop.calls) = Len(_seq)
       /\ \A k \in 1..Len(_seq) :
            LET c == g_fprop.calls[k]
            IN /\ c.state0 = g_fprop.state0[_seq[k].name]
               /\ g_fprop.state1[_seq[k].name] = c.state1
               /\ c.state1 = SubFProp(k - 1, c.external, c.input_args, c.padding,
                                      c.state0).state1
       /\ g_state = g_fprop.state1
       /\ g_ncalls = 1 => g_fprop.state0 = g_zero.state0
  /\ (s_phase = "ready" /\ s_fprop.status # "ok") => s_state = s_zero.state0
  /\ s_phase = "ready" => Len(s_zero.state0) = s_sub
  /\ s_fprop.status = "ok" =>
       /\ Len(s_fprop.state1) = Len(s_fprop.state0)
       /\ Len(s_fprop.state1) = s_sub
       /\ Len(s_fprop.calls) = s_sub
       /\ \A k \in 1..s_sub :
            LET c == s_fprop.calls[k]
            IN /\ c.step = k - 1
               /\ c.state0 = s_fprop.state0[k]
               /\ s_fprop.state1[k] = c.state1
               /\ c.state1 = SubFProp(k - 1, c.external, c.inputs, c.padding,
                                      c.state0).state1
       /\ s_state = s_fprop.state1
       /\ s_ncalls = 1 => s_fprop.state0 = s_zero.state0

\* A second timestep of a two-step graph consumed the state the first returned
\* and returned a different one.
C6_Witness ==
  /\ g_ncalls = 2
  /\ g_fprop.status = "ok"
  /\ Len(_seq) = 2
  /\ g_fprop.state0 # g_zero.state0
  /\ g_fprop.state1 # g_fprop.state0

(***************************************************************************)
(* Properties of StackStep.                                                *)
(***************************************************************************)
\* output[j] of one FProp call: output[-1] is the concatenated step input and
\* output[j], j >= 0, the output recorded for sub-step j.
RecordedOutput(j) ==
  IF j = -1 THEN Concat(s_fprop.step_inputs.inputs) ELSE s_fprop.calls[j + 1].output

\* Sub-step i (0-based) ran and FProp did not fail at it.
Completed(i) ==
  /\ i + 1 <= Len(s_fprop.calls)
  /\ s_fprop.status = "ok" \/ i + 1 < Len(s_fprop.calls)

\* C4: for every sub-step i with residual_start >= 0 and i >= residual_start
\* whose lookback target i - residual_stride is a recorded output (-1..i-1),
\* output[i] = raw_output[i] + output[i - residual_stride].
C4_ResidualOutput ==
  s_fprop.status # "none" =>
    \A i \in 0..(s_sub - 1) :
      (/\ residual_start >= 0 /\ i >= residual_start
       /\ i - residual_stride >= -1 /\ i - residual_stride <= i - 1
       /\ \A j \in 0..(i - 1) : Completed(j)) =>
        /\ Completed(i)
        /\ s_fprop.calls[i + 1].output =
             Add(s_fprop.calls[i + 1].raw, RecordedOutput(i - residual_stride))

\* residual_start = 0 and residual_stride = 1 on two sub-steps: both outputs
\* carry a residual term.
C4_Witness ==
  /\ s_fprop.status = "ok"
  /\ s_sub = 2 /\ residual_start = 0 /\ residual_stride = 1
  /\ s_fprop.calls[1].output = Add(s_fprop.calls[1].raw, Concat(s_fprop.step_inputs.inputs))
  /\ s_fprop.calls[2].output = Add(s_fprop.calls[2].raw, s_fprop.calls[1].output)
  /\ s_fprop.output = s_fprop.calls[2].output

\* C5 as stated: when residuals are active for sub-step i and the lookback
\* target i - residual_stride is not a recorded output (residual_stride > i + 1
\* or residual_stride <= 0), FProp fails with an assertion at that sub-step.
C5_LookbackOutOfRangeAsserts ==
  s_fprop.status # "none" =>
    \A i \in 0..(s_sub - 1) :
      (/\ residual_start >= 0 /\ i >= residual_start
       /\ residual_stride > i + 1 \/ residual_stride <= 0
       /\ i + 1 <= Len(s_fprop.calls)) =>
        s_fprop.status = "AssertionError" /\ Len(s_fprop.calls) = i + 1

\* C8 as stated: the external inputs StackStep.ZeroState gives sub-step i are
\* entry i of what StackStep.PrepareExternalInputs returned.
C8_ZeroStateGetsOwnExternalInputs ==
  s_phase = "ready" =>
    \A i \in 1..s_sub : s_zero.calls[i].external_inputs = s_prepared[i]

(***************************************************************************)
(* Properties of GraphStep.PrepareExternalInputs.                          *)
(***************************************************************************)
\* The positions (1-based) of the sub-steps that declare an external signature.
WithExternalSignature ==
  { k \in 1..Len(_seq) : _seq[k].external_signature # NoSignature }

\* The calls of a call log made for the sub-step called name.
CallsOf(calls, name) == { c \in 1..Len(calls) : calls[c].name = name }

\* C11: PrepareExternalInputs returns a mapping with exactly one entry per
\* sub-step, keyed by the sub-step's name and filled in declaration order.  For
\* a sub-step with an external signature the entry is what that sub-step's
\* PrepareExternalInputs returns for the value its single reference resolves to
\* in a registry seeded with the caller's external_inputs; for a sub-step
\* without one the entry is an empty NestedMap and the sub-step's
\* PrepareExternalInputs is not called.
C11_PreparedInputsPerSubStep ==
  prepared_inputs.status = "ok" =>
    /\ DOMAIN prepared_inputs.map = { _seq[k].name : k \in 1..Len(_seq) }
    /\ Len(prepared_inputs.calls) = Cardinality(WithExternalSignature)
    /\ \A a, b \in 1..Len(prepared_inputs.calls) :
         a < b => prepared_inputs.calls[a].step < prepared_inputs.calls[b].step
    /\ \A k \in 1..Len(_seq) :
         IF k \in WithExternalSignature
           THEN /\ prepared_inputs.map[_seq[k].name] =
                     SubPrepareExternalInputs(k - 1, g_external_inputs)
                /\ \E c \in 1..Len(prepared_inputs.calls) :
                     /\ CallsOf(prepared_inputs.calls, _seq[k].name) = {c}
                     /\ prepared_inputs.calls[c].step = k - 1
                     /\ prepared_inputs.calls[c].external_inputs = g_external_inputs
                     /\ prepared_inputs.calls[c].result =
                          prepared_inputs.map[_seq[k].name]
           ELSE /\ prepared_inputs.map[_seq[k].name] = NestedMap(<<>>)
                /\ CallsOf(prepared_inputs.calls, _seq[k].name) = {}

\* Two sub-steps, the first without and the second with an external signature:
\* one call was made, for the second, with the caller's value.
C11_Witness ==
  /\ prepared_inputs.status = "ok"
  /\ Len(_seq) = 2
  /\ WithExternalSignature = {2}
  /\ g_external_inputs = Tensor(2)
  /\ Len(prepared_inputs.calls) = 1
  /\ prepared_inputs.map[_seq[1].name] = NestedMap(<<>>)
  /\ prepared_inputs.map[_seq[2].name] = SubPrepareExternalInputs(1, Tensor(2))

(***************************************************************************)
(* Properties of StackStep.FProp.                                          *)
(***************************************************************************)
\* C12: in StackStep.FProp sub-step 0 receives the list step_inputs.inputs and
\* every sub-step i >= 1 receives the single recorded output of sub-step i - 1
\* (after any residual addition); a context in step_inputs is appended
\* unchanged to every sub-step's input list and nothing is appended when it is
\* absent; the returned output is the recorded output of the last sub-step.
C12_StackDataFlow ==
  s_fprop.status # "none" =>
    LET context == s_fprop.step_inputs.context
        appended == IF context = None THEN <<>> ELSE <<context>>
    IN /\ \A c \in 1..Len(s_fprop.calls) :
            /\ s_fprop.calls[c].step = c - 1
            /\ s_fprop.calls[c].inputs =
                 (IF c = 1 THEN s_fprop.step_inputs.inputs
                           ELSE <<s_fprop.calls[c - 1].output>>) \o appended
       /\ s_fprop.status = "ok" =>
            /\ Len(s_fprop.calls) = s_sub
            /\ s_fprop.output = s_fprop.calls[s_sub].output

\* Two sub-steps with residuals from sub-step 0 on, two step inputs and a
\* context: the second sub-step got the first one's output with its residual
\* term, followed by the context.
C12_Witness ==
  /\ s_fprop.status = "ok"
  /\ s_sub = 2 /\ residual_start = 0 /\ residual_stride = 1
  /\ s_fprop.step_inputs = [inputs |-> <<Tensor(1), Tensor(2)>>, context |-> Tensor(5)]
  /\ s_fprop.calls[1].inputs = <<Tensor(1), Tensor(2), Tensor(5)>>
  /\ s_fprop.calls[1].output # s_fprop.calls[1].raw
  /\ s_fprop.calls[2].inputs = <<s_fprop.calls[1].output, Tensor(5)>>
  /\ s_fprop.output = s_fprop.calls[2].output

\* C13: no residual term is applied to sub-step i when residual_start is
\* negative or i < residual_start: its recorded output is its raw output,
\* whatever the number of sub-steps and the residual_stride; with a negative
\* residual_start the whole call therefore completes.
C13_NoResidualBeforeStart ==
  s_fprop.status # "none" =>
    /\ \A c \in 1..Len(s_fprop.calls) :
         (residual_start < 0 \/ c - 1 < residual_start) =>
           s_fprop.calls[c].output = s_fprop.calls[c].raw
    /\ residual_start < 0 =>
         s_fprop.status = "ok" /\ Len(s_fprop.calls) = s_sub

\* residual_start = 1 on two sub-steps: sub-step 0 keeps its raw output and
\* sub-step 1 carries a residual term.
C13_Witness ==
  /\ s_fprop.status = "ok"
  /\ s_sub = 2 /\ residual_start = 1 /\ residual_stride = 1
  /\ s_fprop.calls[1].output = s_fprop.calls[1].raw
  /\ s_fprop.calls[2].output # s_fprop.calls[2].raw

(***************************************************************************)
(* Properties of GraphStep.__init__.                                       *)
(***************************************************************************)
\* A spec whose signature has exactly one input group and at least one output
\* name and whose external signature, when present, has exactly one input group
\* and no output.
ExpectedArity(sub) ==
  /\ Len(sub.signature.inputs) = 1
  /\ Len(sub.signature.outputs) >= 1
  /\ sub.external_signature # NoSignature =>
       /\ Len(sub.external_signature.inputs) = 1
       /\ Len(sub.external_signature.outputs) = 0

\* C14: construction fails, and no instance results, for any list of specs one
\* of which has a signature without exactly one input group or without an
\* output name, or an external signature without exactly one input group or
\* with an output.
C14_MalformedSignatureFailsConstruction ==
  ConstructorReturned =>
    ((\E i \in 1..Len(p_sub) : ~ExpectedArity(p_sub[i])) =>
       /\ g_phase = "error"
       /\ Len(_seq) < Len(p_sub))

\* A well-formed spec followed by one whose external signature declares an
\* output: construction stopped at the second spec.
C14_Witness ==
  /\ g_phase = "error"
  /\ Len(p_sub) = 2
  /\ ExpectedArity(p_sub[1])
  /\ p_sub[2].external_signature = GraphSignature(<<"external_inputs">>, <<"prepared">>)
  /\ Len(_seq) = 1

(***************************************************************************)
(* Properties of the external inputs GraphStep hands to its sub-steps.     *)
(***************************************************************************)
\* C16 as stated: when FProp is called with the mapping PrepareExternalInputs
\* returned, the external inputs every sub-step's FProp receives are the entry
\* recorded under the sub-step's name, the value its ZeroState received; also
\* for a sub-step without an external signature, whose entry is an empty
\* NestedMap.
C16_FPropGetsPreparedEntry ==
  g_fprop.status # "none" =>
    \A c \in 1..Len(g_fprop.calls) :
      /\ g_fprop.calls[c].external = prepared_inputs.map[g_fprop.calls[c].name]
      /\ g_fprop.calls[c].external = g_zero.calls[c].external_inputs

(***************************************************************************)
(* Properties of StatelessLayerStep.                                       *)
(***************************************************************************)
\* C15: StatelessLayerStep.PrepareExternalInputs and ZeroState return an empty
\* NestedMap for every input, and the state FProp returns is empty for every
\* external_inputs, step_inputs, padding and state0; FProp's output is the
\* wrapped layer's FProp of step_inputs.inputs, with padding forwarded only
\* when it is not None, and does not depend on external_inputs or state0.
C15_StatelessWrapper ==
  /\ l_prepared.status # "none" => l_prepared.result = NestedMap(<<>>)
  /\ l_zero.status # "none" => l_zero.result = NestedMap(<<>>)
  /\ l_fprop.status # "none" =>
       /\ l_fprop.state1 = NestedMap(<<>>)
       /\ l_fprop.layer_call.inputs = l_fprop.step_inputs.inputs
       /\ DOMAIN l_fprop.layer_call.args =
            (IF l_fprop.padding = None THEN {} ELSE {"padding"})
       /\ l_fprop.padding # None => l_fprop.layer_call.args["padding"] = l_fprop.padding
       /\ l_fprop.output =
            LayerFProp(l_fprop.step_inputs.inputs,
                       [a \in (IF l_fprop.padding = None THEN {} ELSE {"padding"})
                          |-> l_fprop.padding])

\* All three methods were called with values that are not empty; FProp got no
\* padding and called the layer without one.
C15_Witness ==
  /\ l_prepared.status = "ok" /\ l_prepared.external_inputs = Tensor(1)
  /\ l_zero.status = "ok" /\ l_zero.external_inputs = Tensor(1) /\ l_zero.batch_size = 2
  /\ l_fprop.status = "ok"
  /\ l_fprop.external_inputs = Tensor(1) /\ l_fprop.state0 = Tensor(1)
  /\ l_fprop.padding = None
  /\ DOMAIN l_fprop.layer_call.args = {}
  /\ l_fprop.output = LayerFProp(Tensor(2), EmptyMapping)

====
